---- MODULE Spec2Model ----
(***************************************************************************)
(* Model of the CollapsibleColumns plugin                                  *)
(* (src/src/plugins/collapsibleColumns/collapsibleColumns.js).             *)
(*                                                                         *)
(* Header rows are addressed as the plugin addresses them: row is the      *)
(* negative header coordinate (-headerRowCount .. -1, -1 being the lowest  *)
(* header row), col is the nested column position inside that row.         *)
(* The colspan record of the NestedHeaders settings is a sequence of       *)
(* levels, top level first; level k of the source (0-based) is             *)
(* colspan[k + 1] here and position p of the source is index p + 1.        *)
(***************************************************************************)
EXTENDS Integers, Sequences, FiniteSets, TLC

\* Number of real (physical) columns of the grid.
NumCols == 4
\* Number of header levels of the nested header configuration.
NumLevels == 2
\* Longest hidden-column list the initial hiddenColumns setting may carry.
MaxInitHidden == 1
\* Number of indicator clicks a run follows.
MaxClicks == 3

VARIABLES
    nestedHeaders,      \* settings.nestedHeaders is configured
    colspan,            \* settings.nestedHeaders.colspan
    hiddenColumns,      \* settings.hiddenColumns, shared with the HiddenColumns plugin
    collapsedSections,  \* this.collapsedSections
    indicator,          \* class of the indicator element rendered in each header cell
    phase,              \* "constructed" until the afterInit hook has run, then "ready"
    warned,             \* console.warn was called
    threw,              \* a hook callback raised an exception
    clicks,             \* number of indicator clicks handled so far
    last,               \* the last indicator click handled: its action and header cell
    columnHeaderLevelCount  \* this.columnHeaderLevelCount: 0 stands for undefined

vars == <<nestedHeaders, colspan, hiddenColumns, collapsedSections, indicator,
          phase, warned, threw, clicks, last, columnHeaderLevelCount>>

-----------------------------------------------------------------------------
(* Sequences and sets *)

RECURSIVE SumSeq(_)
SumSeq(s) == IF s = <<>> THEN 0 ELSE Head(s) + SumSeq(Tail(s))

Range(s) == {s[i] : i \in 1..Len(s)}

\* Array.prototype.indexOf(x) === -1
NotIn(s, x) == \A i \in 1..Len(s) : s[i] # x

\* Array.prototype.indexOf followed by splice(foundIndex, 1): drops the first x.
RECURSIVE SpliceFirst(_, _)
SpliceFirst(s, x) ==
    IF s = <<>> THEN <<>>
    ELSE IF Head(s) = x THEN Tail(s)
    ELSE <<Head(s)>> \o SpliceFirst(Tail(s), x)

-----------------------------------------------------------------------------
(* The header span index: the colspan record and the coordinate            *)
(* translations of the NestedHeaders plugin and of the grid core.          *)

\* THEAD.childNodes.length: the rendered header has one row per level of the record.
headerRowCount == Len(colspan)

\* colspanSettings[level], or undefined
HasLevel(level) == level \in 0..(Len(colspan) - 1)

\* colspanSettings[level][pos] > 1 (false when the entry is undefined)
SpansMany(level, pos) ==
    /\ HasLevel(level)
    /\ pos \in 0..(Len(colspan[level + 1]) - 1)
    /\ colspan[level + 1][pos + 1] > 1

\* colspanSettings[level][pos], read as 1 where there is no entry
ColspanOf(level, pos) ==
    IF HasLevel(level) /\ pos \in 0..(Len(colspan[level + 1]) - 1)
    THEN colspan[level + 1][pos + 1]
    ELSE 1

\* Real index of the leftmost column under nested position col of header row row:
\* the colspans of the cells to its left, summed.
nestedColumnIndexToRealIndex(row, col) ==
    LET level == headerRowCount + row
        RECURSIVE Before(_, _)
        Before(p, sum) == IF p >= col THEN sum ELSE Before(p + 1, sum + ColspanOf(level, p))
    IN IF HasLevel(level) THEN Before(0, 0) ELSE col

\* Nested position, in header row row, of the header cell covering real column real.
realColumnIndexToNestedIndex(row, real) ==
    LET level == headerRowCount + row
        RECURSIVE Find(_, _)
        Find(p, next) == IF next > real THEN p ELSE Find(p + 1, next + ColspanOf(level, p + 1))
    IN IF HasLevel(level) THEN Find(0, ColspanOf(level, 0)) ELSE real

\* hot.getColspanOffset(col, headerLevel): headerLevel counts from the lowest header row.
getColspanOffset(col, headerLevel) ==
    LET level == headerRowCount - 1 - headerLevel
        RECURSIVE Extra(_)
        Extra(p) == IF p <= 0 THEN 0 ELSE (ColspanOf(level, p - 1) - 1) + Extra(p - 1)
    IN Extra(col)

-----------------------------------------------------------------------------
(* getChildHeaders *)

\* getChildHeaders walking the real columns of the span and pushing, for each, the
\* child header covering it, without the indexOf test.
getChildHeaders_NoIndexOf(row, col, span) ==
    LET realColumnIndex == nestedColumnIndexToRealIndex(row, col)
        RECURSIVE Walk(_, _)
        Walk(i, childHeaderRange) ==
            IF ~(i < span) THEN childHeaderRange
            ELSE Walk(i + 1,
                      Append(childHeaderRange,
                             nestedColumnIndexToRealIndex(row + 1,
                                 realColumnIndexToNestedIndex(row + 1, realColumnIndex + i))))
    IN Walk(0, <<>>)

getChildHeaders(row, col, span) ==
    LET childLevel == columnHeaderLevelCount + row + 1
        realColumnIndex == nestedColumnIndexToRealIndex(row, col)
        childNestedColumnIndex == realColumnIndexToNestedIndex(row + 1, realColumnIndex)
        \* The loop: first is childNestedColumnIndex, c the current value of colspan.
        RECURSIVE Walk(_, _, _, _)
        Walk(first, i, c, childHeaderRange) ==
            IF ~(i < first + c) THEN childHeaderRange
            ELSE LET c2 == IF SpansMany(childLevel, i)
                           THEN c - colspan[childLevel + 1][i + 1]
                           ELSE c
                     realChildIndex == nestedColumnIndexToRealIndex(row + 1, i)
                 IN Walk(first, i + 1, c2,
                         IF NotIn(childHeaderRange, realChildIndex)
                         THEN Append(childHeaderRange, realChildIndex)
                         ELSE childHeaderRange)
    IN Walk(childNestedColumnIndex, childNestedColumnIndex, span, <<>>)

-----------------------------------------------------------------------------
(* The section state store: this.collapsedSections[row][col] *)

NoCells == [c \in {} |-> "true"]

\* if (!this.collapsedSections[row]) this.collapsedSections[row] = [];
EnsureRow(cs, row) ==
    IF row \in DOMAIN cs THEN cs
    ELSE [r \in DOMAIN cs \cup {row} |-> IF r = row THEN NoCells ELSE cs[r]]

\* this.collapsedSections[row][col] = value;
SetCell(cs, row, col, value) ==
    [cs EXCEPT ![row] = [c \in DOMAIN cs[row] \cup {col} |->
                            IF c = col THEN value ELSE cs[row][c]]]

\* this.collapsedSections[row] && this.collapsedSections[row][col] === true
isCollapsed(cs, row, col) ==
    /\ row \in DOMAIN cs
    /\ col \in DOMAIN cs[row]
    /\ cs[row][col] = "true"

\* StoreMark with 'expanded' storing false instead of void 0.
StoreMark_StoresFalse(cs, state, row, col) ==
    IF state = "collapsed" THEN SetCell(cs, row, col, "true")
    ELSE IF state = "expanded" THEN SetCell(cs, row, col, "false")
    ELSE cs

\* The switch of markSectionAs: true for 'collapsed', void 0 for 'expanded'.
StoreMark(cs, state, row, col) ==
    IF state = "collapsed" THEN SetCell(cs, row, col, "true")
    ELSE IF state = "expanded" THEN SetCell(cs, row, col, "undefined")
    ELSE cs

\* nestedHeadersColspans[reversedIndex][col] of the call made by the click handler
\* raises a TypeError when the record has no level reversedIndex (or there is no
\* record at all). The recursive calls are made only for entries that exist.
markSectionAsThrows(row, col) ==
    ~nestedHeaders \/ ~HasLevel(columnHeaderLevelCount + row)

\* The store markSectionAs leaves. An entry the record lacks is read as undefined
\* by the source and makes getChildHeaders return []; read as 1 here it makes
\* getChildHeaders return one child, and the loop over the children starts at the
\* second: no child is marked either way. When the call raises, the section's own
\* mark has been stored already.
RECURSIVE markSectionAs(_, _, _, _, _)
markSectionAs(cs, state, row, col, recursive) ==
    LET marked == StoreMark(EnsureRow(cs, row), state, row, col)
        reversedIndex == columnHeaderLevelCount + row
        \* The loop over childHeaders, from its second entry on.
        RECURSIVE Children(_, _, _)
        Children(childHeaders, acc, i) ==
            IF i > Len(childHeaders) THEN acc
            ELSE LET nestedIndex == realColumnIndexToNestedIndex(row + 1, childHeaders[i])
                 IN Children(childHeaders,
                             IF SpansMany(reversedIndex + 1, nestedIndex)
                             THEN markSectionAs(acc, state, row + 1, nestedIndex, TRUE)
                             ELSE acc,
                             i + 1)
    IN IF recursive
       THEN Children(getChildHeaders(row, col, ColspanOf(reversedIndex, col)), marked, 2)
       ELSE marked

\* The recursive calls one markSectionAs(state, row, col, TH, true) makes, in all
\* its depth: <<row of the caller, row of the call, col of the call>>.
RECURSIVE markSectionAsCalls(_, _)
markSectionAsCalls(row, col) ==
    LET reversedIndex == columnHeaderLevelCount + row
        childHeaders == getChildHeaders(row, col, ColspanOf(reversedIndex, col))
        nestedIndex(i) == realColumnIndexToNestedIndex(row + 1, childHeaders[i])
        called == {i \in 2..Len(childHeaders) : SpansMany(reversedIndex + 1, nestedIndex(i))}
    IN {<<row, row + 1, nestedIndex(i)>> : i \in called}
       \cup UNION {markSectionAsCalls(row + 1, nestedIndex(i)) : i \in called}

-----------------------------------------------------------------------------
(* The column visibility store: settings.hiddenColumns *)

NotConfigured == [kind |-> "undefined", hasColumns |-> FALSE, columns |-> <<>>, indicators |-> FALSE]
JustTrue == [kind |-> "true", hasColumns |-> FALSE, columns |-> <<>>, indicators |-> FALSE]

\* The list toggleCollapsedSection reads: [] for true or for a missing column list.
CurrentlyHidden(setting) ==
    IF setting.kind = "true" \/ ~setting.hasColumns THEN <<>> ELSE setting.columns

\* The hidden-column set of the store.
HiddenSet(setting) == Range(CurrentlyHidden(setting))

\* CollapseColumns pushing every column of the loop, without the indexOf test.
CollapseColumns_NoIndexOf(currentlyHiddenColumns, row, col, colspanOffset, headerColspan) ==
    LET firstElementColspan(childHeaders) ==
            IF Len(childHeaders) >= 2 /\ childHeaders[2] # 0
            THEN childHeaders[2] - childHeaders[1]
            ELSE 1
        RECURSIVE Push(_, _)
        Push(columnArray, i) ==
            IF ~(i < headerColspan) THEN columnArray
            ELSE Push(Append(columnArray, col + colspanOffset + i), i + 1)
    IN Push(currentlyHiddenColumns,
            firstElementColspan(getChildHeaders(row, col, headerColspan)))

\* CollapseColumns with the loop starting one column too far to the right.
CollapseColumns_StartsLate(currentlyHiddenColumns, row, col, colspanOffset, headerColspan) ==
    LET firstElementColspan(childHeaders) ==
            IF Len(childHeaders) >= 2 /\ childHeaders[2] # 0
            THEN childHeaders[2] - childHeaders[1]
            ELSE 1
        RECURSIVE Push(_, _)
        Push(columnArray, i) ==
            IF ~(i < headerColspan) THEN columnArray
            ELSE LET colToHide == col + colspanOffset + i
                 IN Push(IF NotIn(currentlyHiddenColumns, colToHide)
                         THEN Append(columnArray, colToHide)
                         ELSE columnArray,
                         i + 1)
    IN Push(currentlyHiddenColumns,
            firstElementColspan(getChildHeaders(row, col, headerColspan)) + 1)

\* CollapseColumns pushing onto an empty array instead of a copy of the current list.
CollapseColumns_DropsCurrent(currentlyHiddenColumns, row, col, colspanOffset, headerColspan) ==
    LET RECURSIVE Push(_, _)
        Push(columnArray, i) ==
            IF ~(i < headerColspan) THEN columnArray
            ELSE Push(Append(columnArray, col + colspanOffset + i), i + 1)
    IN Push(<<>>, 1)

\* The columns the 'collapse' branch leaves in columnArray.
CollapseColumns(currentlyHiddenColumns, row, col, colspanOffset, headerColspan) ==
    LET firstElementColspan(childHeaders) ==
            IF Len(childHeaders) >= 2 /\ childHeaders[2] # 0
            THEN childHeaders[2] - childHeaders[1]
            ELSE 1
        RECURSIVE Push(_, _)
        Push(columnArray, i) ==
            IF ~(i < headerColspan) THEN columnArray
            ELSE LET colToHide == col + colspanOffset + i
                 IN Push(IF NotIn(currentlyHiddenColumns, colToHide)
                         THEN Append(columnArray, colToHide)
                         ELSE columnArray,
                         i + 1)
    IN Push(currentlyHiddenColumns,
            firstElementColspan(getChildHeaders(row, col, headerColspan)))

\* ExpandColumns with the loop starting at 2 instead of 1.
ExpandColumns_StartsLate(currentlyHiddenColumns, row, col, colspanOffset, headerColspan) ==
    LET RECURSIVE Splice(_, _)
        Splice(columnArray, i) ==
            IF ~(i < headerColspan) THEN columnArray
            ELSE Splice(SpliceFirst(columnArray, col + colspanOffset + i), i + 1)
    IN Splice(currentlyHiddenColumns, 2)

\* The columns the 'expand' branch leaves in columnArray.
ExpandColumns(currentlyHiddenColumns, row, col, colspanOffset, headerColspan) ==
    LET RECURSIVE Splice(_, _)
        Splice(columnArray, i) ==
            IF ~(i < headerColspan) THEN columnArray
            ELSE Splice(SpliceFirst(columnArray, col + colspanOffset + i), i + 1)
    IN Splice(currentlyHiddenColumns, 1)

\* toggleCollapsedSection writing a new settings object that holds only the list.
toggleCollapsedSection_FreshObject(setting, row, col, action) ==
    LET headerLevel == (-row) - 1
        colspanOffset == getColspanOffset(col, headerLevel)
        headerColspan == ColspanOf(headerRowCount + row, col)
        currentlyHiddenColumns == CurrentlyHidden(setting)
        columnArray ==
            IF action = "collapse"
            THEN CollapseColumns(currentlyHiddenColumns, row, col, colspanOffset, headerColspan)
            ELSE IF action = "expand"
            THEN ExpandColumns(currentlyHiddenColumns, row, col, colspanOffset, headerColspan)
            ELSE currentlyHiddenColumns
    IN IF setting.kind = "undefined"
       THEN [threw |-> TRUE, setting |-> setting]
       ELSE [threw |-> FALSE,
             setting |-> [kind |-> "object", hasColumns |-> TRUE, columns |-> columnArray,
                          indicators |-> FALSE]]

\* Result of toggleCollapsedSection: the exception flag and the setting written
\* by updateSettings.
toggleCollapsedSection(setting, row, col, action) ==
    LET headerLevel == (-row) - 1
        colspanOffset == getColspanOffset(col, headerLevel)
        headerColspan == ColspanOf(headerRowCount + row, col)
        currentlyHiddenColumns == CurrentlyHidden(setting)
        columnArray ==
            IF action = "collapse"
            THEN CollapseColumns(currentlyHiddenColumns, row, col, colspanOffset, headerColspan)
            ELSE IF action = "expand"
            THEN ExpandColumns(currentlyHiddenColumns, row, col, colspanOffset, headerColspan)
            ELSE currentlyHiddenColumns
    IN IF setting.kind = "undefined"
       THEN [threw |-> TRUE, setting |-> setting]
       ELSE [threw |-> FALSE,
             setting |-> [kind |-> "object", hasColumns |-> TRUE, columns |-> columnArray,
                          indicators |-> setting.indicators]]

-----------------------------------------------------------------------------
(* Header cells and the rendered indicators *)

Rows == (0 - headerRowCount)..(-1)

\* The header cells of the configured header: every nested position of every row.
ConfiguredCells == {rc \in Rows \X (0..(NumCols - 1)) :
                      rc[2] < Len(colspan[headerRowCount + rc[1] + 1])}

\* The header cells of the rendered header.
Cells == DOMAIN indicator

\* TH.hasAttribute('colspan') && TH.getAttribute('colspan') > 1
HasColspanAttribute(row, col) ==
    nestedHeaders /\ SpansMany(headerRowCount + row, col)

generateIndicator(cs, row, col) ==
    IF isCollapsed(cs, row, col) THEN "collapsed" ELSE "expanded"

\* onAfterGetColHeader testing only that the cell has a colspan attribute.
onAfterGetColHeader_AnyColspan(cs, row, col) ==
    IF nestedHeaders /\ HasLevel(headerRowCount + row)
    THEN generateIndicator(cs, row, col)
    ELSE "none"

onAfterGetColHeader(cs, row, col) ==
    IF HasColspanAttribute(row, col) THEN generateIndicator(cs, row, col) ELSE "none"

\* The sections flagged collapsed, as isCollapsed observes the store.
Flagged(cs) == {rc \in Cells : isCollapsed(cs, rc[1], rc[2])}

-----------------------------------------------------------------------------
(* Configurations the grid can be constructed with *)

\* One header level: the colspans of its cells, left to right, covering all columns.
LevelRecords ==
    {s \in UNION {[1..k -> 1..NumCols] : k \in 1..NumCols} : SumSeq(s) = NumCols}

\* Real indices at which the cells of a level start.
Starts(s) == {SumSeq(SubSeq(s, 1, i - 1)) : i \in 1..Len(s)}

\* Nested headers of n levels: every cell of a level starts where a cell of the
\* level below starts.
LayoutsOf(n) ==
    {l \in [1..n -> LevelRecords] :
        \A k \in 1..(n - 1) : Starts(l[k]) \subseteq Starts(l[k + 1])}

\* The nested headers the grid is constructed with.
Layouts == LayoutsOf(NumLevels)

\* The nested headers a later updateSettings can install: the same columns under
\* any number of header levels.
Reshapes == UNION {LayoutsOf(n) : n \in 1..NumLevels}

\* Without NestedHeaders there is one header row of single-column cells.
PlainHeader == <<[i \in 1..NumCols |-> 1]>>

\* Ascending lists of distinct real column indices.
HiddenLists ==
    {s \in UNION {[1..k -> 0..(NumCols - 1)] : k \in 0..MaxInitHidden} :
        \A i \in 1..(Len(s) - 1) : s[i] < s[i + 1]}

InitialHiddenSettings ==
    {NotConfigured, JustTrue}
    \cup {[kind |-> "object", hasColumns |-> FALSE, columns |-> <<>>, indicators |-> TRUE]}
    \cup {[kind |-> "object", hasColumns |-> TRUE, columns |-> s, indicators |-> TRUE] :
            s \in HiddenLists}

NoClick == [action |-> "none", row |-> 0, col |-> 0]

Init ==
    /\ nestedHeaders \in BOOLEAN
    /\ colspan \in (IF nestedHeaders THEN Layouts ELSE {PlainHeader})
    /\ hiddenColumns \in InitialHiddenSettings
    /\ collapsedSections = [r \in {} |-> NoCells]
    /\ indicator = [rc \in ConfiguredCells |-> "none"]
    /\ phase = "constructed"
    /\ warned = FALSE
    /\ threw = FALSE
    /\ clicks = 0
    /\ last = NoClick
    /\ columnHeaderLevelCount = 0

-----------------------------------------------------------------------------
(* The hooks *)

\* checkDependencies(): the warning it logs and the value it returns.
checkDependencies ==
    IF ~nestedHeaders THEN [warn |-> TRUE, result |-> "false"]
    ELSE IF hiddenColumns.kind = "undefined" THEN [warn |-> TRUE, result |-> "false"]
    ELSE [warn |-> FALSE, result |-> "undefined"]

\* afterInit: the result of checkDependencies() is dropped.
onAfterInit ==
    /\ phase = "constructed"
    /\ warned' = checkDependencies.warn
    /\ columnHeaderLevelCount' = headerRowCount
    /\ phase' = "ready"
    /\ UNCHANGED <<nestedHeaders, colspan, hiddenColumns, collapsedSections, indicator,
                   threw, clicks, last>>

\* afterGetColHeader for every header cell of the rendered header.
Rendered(cs) == [rc \in Cells |-> onAfterGetColHeader(cs, rc[1], rc[2])]

\* The grid renders its header.
RenderHeaders ==
    /\ indicator' = Rendered(collapsedSections)
    /\ UNCHANGED <<nestedHeaders, colspan, hiddenColumns, collapsedSections, phase,
                   warned, threw, clicks, last, columnHeaderLevelCount>>

\* The action onBeforeOnCellMouseDown passes to toggleCollapsedSection for an
\* indicator of the given class.
ActionOf(class) == IF class = "expanded" THEN "collapse" ELSE "expand"

\* The body of onBeforeOnCellMouseDown for a click on an indicator of the given
\* class in header cell (row, col): the stores it leaves and whether it raised.
MouseDown(cs, setting, row, col, class) ==
    LET action == ActionOf(class)
        ensured == IF class = "expanded" THEN EnsureRow(cs, row) ELSE cs
        marked == markSectionAs(ensured,
                                IF class = "expanded" THEN "collapsed" ELSE "expanded",
                                row, col, TRUE)
        toggled == toggleCollapsedSection(setting, row, col, action)
    IN IF markSectionAsThrows(row, col)
       THEN [cs |-> marked, setting |-> setting, threw |-> TRUE]
       ELSE [cs |-> marked, setting |-> toggled.setting, threw |-> toggled.threw]

\* beforeOnCellMouseDown on the indicator rendered in header cell (row, col).
onBeforeOnCellMouseDown(row, col) ==
    /\ phase # "constructed"
    /\ clicks < MaxClicks
    /\ indicator[<<row, col>>] # "none"
    /\ \E done \in {MouseDown(collapsedSections, hiddenColumns, row, col,
                               indicator[<<row, col>>])} :
          /\ collapsedSections' = done.cs
          /\ hiddenColumns' = done.setting
          /\ threw' = (threw \/ done.threw)
          /\ clicks' = clicks + 1
          /\ last' = [action |-> ActionOf(indicator[<<row, col>>]), row |-> row, col |-> col]
          \* updateSettings makes the grid render its header again; an exception
          \* leaves the rendered indicators as they were.
          /\ indicator' = IF done.threw THEN indicator ELSE Rendered(done.cs)
    /\ UNCHANGED <<nestedHeaders, colspan, phase, warned, columnHeaderLevelCount>>

\* hot.updateSettings({nestedHeaders: ...}) by the application: the grid renders
\* its header from the new record. afterInit does not run again, so
\* this.columnHeaderLevelCount keeps the value it got from the first header.
updateNestedHeaders(newColspan) ==
    /\ phase = "ready"
    /\ nestedHeaders
    /\ newColspan # colspan
    /\ colspan' = newColspan
    /\ phase' = "reshaped"
    /\ UNCHANGED <<nestedHeaders, hiddenColumns, collapsedSections, warned, threw,
                   clicks, last, columnHeaderLevelCount>>
    /\ indicator' = [rc \in ConfiguredCells' |->
                        onAfterGetColHeader(collapsedSections, rc[1], rc[2])']

Next ==
    \/ onAfterInit
    \/ RenderHeaders
    \/ \E rc \in Cells : onBeforeOnCellMouseDown(rc[1], rc[2])

Spec == Init /\ [][Next]_vars

\* The grid with a change of its header shape by the application.
ReshapeNext ==
    \/ Next
    \/ \E l \in Reshapes : updateNestedHeaders(l)

ReshapeSpec == Init /\ [][ReshapeNext]_vars

-----------------------------------------------------------------------------
(* Vocabulary of the properties *)

\* The header cells that carry an indicator when rendered.
Sections == {rc \in Cells : HasColspanAttribute(rc[1], rc[2])}

\* coords.col + colspanOffset: the leftmost real column of a header cell.
LeftColumn(rc) == rc[2] + getColspanOffset(rc[2], (0 - rc[1]) - 1)

\* headerColspan of a header cell.
Width(rc) == ColspanOf(headerRowCount + rc[1], rc[2])

\* The real columns of a header cell's span after its leftmost one.
SpanTail(rc) == (LeftColumn(rc) + 1)..(LeftColumn(rc) + Width(rc) - 1)

\* The header cells below rc that lie inside its span.
Descendants(rc) ==
    {d \in Cells : /\ d[1] > rc[1]
                   /\ LeftColumn(d) >= LeftColumn(rc)
                   /\ LeftColumn(d) + Width(d) <= LeftColumn(rc) + Width(rc)}

\* The leftmost real columns of the header cells one row below rc inside its span,
\* left to right.
ImmediateChildren(rc) ==
    LET below == {d \in Descendants(rc) : d[1] = rc[1] + 1}
        RECURSIVE Ascending(_)
        Ascending(ds) ==
            IF ds = {} THEN <<>>
            ELSE LET first == CHOOSE d \in ds : \A e \in ds : LeftColumn(d) <= LeftColumn(e)
                 IN <<LeftColumn(first)>> \o Ascending(ds \ {first})
    IN Ascending(below)

\* The colspan of the first immediate child of rc, 1 if it has no children.
FirstChildColspan(rc) ==
    LET below == {d \in Descendants(rc) : d[1] = rc[1] + 1 /\ LeftColumn(d) = LeftColumn(rc)}
    IN IF below = {} THEN 1 ELSE Width(CHOOSE d \in below : TRUE)

\* The class of the indicator whose click repeats the section's present state.
SameStateClass(rc) ==
    IF isCollapsed(collapsedSections, rc[1], rc[2]) THEN "expanded" ELSE "collapsed"

-----------------------------------------------------------------------------
(* Properties *)

\* C1: from every state in which a section can be collapsed, the collapse followed
\* immediately by the expand of the same section leaves the hidden-column set of
\* the column visibility store as it was before the collapse.
C1_RoundTripHiddenSet ==
    \A rc \in Sections :
        (phase = "ready" /\ indicator[rc] = "expanded" /\ hiddenColumns.kind # "undefined") =>
            LET c == MouseDown(collapsedSections, hiddenColumns, rc[1], rc[2], "expanded")
                e == MouseDown(c.cs, c.setting, rc[1], rc[2], "collapsed")
            IN HiddenSet(e.setting) = HiddenSet(hiddenColumns)

\* C2: from every state in which a section can be collapsed, the collapse followed
\* immediately by the expand of the same section restores isCollapsed for the
\* section and for every descendant section.
C2_RoundTripFlags ==
    \A rc \in Sections :
        (phase = "ready" /\ indicator[rc] = "expanded" /\ hiddenColumns.kind # "undefined") =>
            LET c == MouseDown(collapsedSections, hiddenColumns, rc[1], rc[2], "expanded")
                e == MouseDown(c.cs, c.setting, rc[1], rc[2], "collapsed")
            IN \A d \in {rc} \cup Descendants(rc) :
                  isCollapsed(e.cs, d[1], d[2]) = isCollapsed(collapsedSections, d[1], d[2])

\* C3: collapsing a section that is collapsed, or expanding a section that is
\* expanded, changes neither isCollapsed of any header cell nor the hidden-column set.
C3_Idempotence ==
    \A rc \in Sections :
        phase = "ready" =>
        LET r == MouseDown(collapsedSections, hiddenColumns, rc[1], rc[2], SameStateClass(rc))
        IN /\ Flagged(r.cs) = Flagged(collapsedSections)
           /\ HiddenSet(r.setting) = HiddenSet(hiddenColumns)

\* The header of the cascade scenario: one top cell over four columns, below it
\* two single-column cells and one cell merging the last two columns.
CascadeHeader == <<<<4>>, <<1, 1, 2>>>>

\* C4: in the cascade scenario with nothing hidden and nothing collapsed, the click
\* that collapses the top section leaves exactly the real columns 1, 2 and 3
\* hidden and both the top section and the merged child marked collapsed.
C4_CascadeScenario ==
    [][(/\ clicks' # clicks
        /\ nestedHeaders
        /\ colspan = CascadeHeader
        /\ hiddenColumns.kind # "undefined"
        /\ HiddenSet(hiddenColumns) = {}
        /\ Flagged(collapsedSections) = {}
        /\ last' = [action |-> "collapse", row |-> -2, col |-> 0])
       => (/\ HiddenSet(hiddenColumns') = {1, 2, 3}
           /\ isCollapsed(collapsedSections', -2, 0)
           /\ isCollapsed(collapsedSections', -1, 2))]_vars

\* The cascade scenario after its single click.
C4_Witness ==
    /\ nestedHeaders
    /\ colspan = CascadeHeader
    /\ clicks = 1
    /\ HiddenSet(hiddenColumns) = {1, 2, 3}
    /\ Flagged(collapsedSections) = {<<-2, 0>>, <<-1, 2>>}

\* C5: for every section with a header row below it, getChildHeaders returns, left
\* to right, exactly the leftmost real column of each immediate child header cell.
C5_ChildResolutionExact ==
    \A rc \in Sections :
        (phase = "ready" /\ HasLevel(headerRowCount + rc[1] + 1)) =>
            getChildHeaders(rc[1], rc[2], Width(rc)) = ImmediateChildren(rc)

\* C6: a click that collapses a section with leftmost real column b and colspan c
\* leaves hidden exactly the columns hidden before and b+k .. b+c-1, k being the
\* colspan of the section's first immediate child (1 if it has none).
C6_CollapseHidesAfterFirstChild ==
    [][(clicks' # clicks /\ last'.action = "collapse" /\ hiddenColumns.kind # "undefined")
       => LET rc == <<last'.row, last'.col>>
          IN HiddenSet(hiddenColumns') =
                HiddenSet(hiddenColumns)
                \cup ((LeftColumn(rc) + FirstChildColspan(rc))..(LeftColumn(rc) + Width(rc) - 1))
      ]_vars

C8_HiddenSetMonotone ==
    [][clicks' # clicks
       => IF last'.action = "collapse"
          THEN HiddenSet(hiddenColumns) \subseteq HiddenSet(hiddenColumns')
          ELSE /\ last'.action = "expand"
               /\ HiddenSet(hiddenColumns') \subseteq HiddenSet(hiddenColumns)
      ]_vars

\* Clicks have collapsed one section and expanded another, and columns are hidden.
C8_Witness ==
    /\ HiddenSet(hiddenColumns) # {}
    /\ Flagged(collapsedSections) # {}
    /\ \E r \in DOMAIN collapsedSections :
          \E c \in DOMAIN collapsedSections[r] : collapsedSections[r][c] = "undefined"

\* C9: every key present in the section state store holds the value true.
C9_OnlyTrueStored ==
    \A r \in DOMAIN collapsedSections :
        \A c \in DOMAIN collapsedSections[r] : collapsedSections[r][c] = "true"

\* C9 as amended: every key present in the section state store holds true or
\* undefined; a click that expands a section leaves the section's key present
\* with undefined, which isCollapsed reads as expanded.
C9_TrueOrUndefinedStored ==
    [][/\ \A r \in DOMAIN collapsedSections' :
             \A c \in DOMAIN collapsedSections'[r] :
                 collapsedSections'[r][c] \in {"true", "undefined"}
       /\ (clicks' # clicks /\ last'.action = "expand")
          => /\ last'.row \in DOMAIN collapsedSections'
             /\ last'.col \in DOMAIN collapsedSections'[last'.row]
             /\ collapsedSections'[last'.row][last'.col] = "undefined"
             /\ ~isCollapsed(collapsedSections', last'.row, last'.col)
      ]_vars

\* A section that was collapsed and then expanded is in the store with undefined.
C9_Witness ==
    \E rc \in Sections :
        /\ rc[1] \in DOMAIN collapsedSections
        /\ rc[2] \in DOMAIN collapsedSections[rc[1]]
        /\ collapsedSections[rc[1]][rc[2]] = "undefined"
        /\ clicks >= 2

\* A required collaborator configuration is missing.
MissingDependency == ~nestedHeaders \/ hiddenColumns.kind = "undefined"

\* C10: once activated without the nested-header or the column-visibility
\* configuration, the plugin has logged a warning, a render attaches no indicator,
\* no step changes either store and no exception is raised.
C10_DisabledWithoutDependencies ==
    [][(phase = "ready" /\ MissingDependency)
       => (/\ warned
           /\ RenderHeaders => \A rc \in Cells : indicator'[rc] = "none"
           /\ Flagged(collapsedSections') = Flagged(collapsedSections)
           /\ HiddenSet(hiddenColumns') = HiddenSet(hiddenColumns)
           /\ ~threw')]_vars

-----------------------------------------------------------------------------
(* Properties of the handler under a stale header level count *)

\* The level of the colspan record the plugin reads for header row row.
PluginLevel(row) == columnHeaderLevelCount + row

\* The colspan record has no entry at the plugin's (level, position) of a header cell.
EntryMissing(row, col) ==
    \/ ~HasLevel(PluginLevel(row))
    \/ col \notin 0..(Len(colspan[PluginLevel(row) + 1]) - 1)

\* C11: with the column visibility store configured, a click on an indicator whose
\* own level, whose entry or whose child level is missing from the colspan record
\* raises no exception and completes with the write of the column list.
C11_MalformedNeverRaises ==
    [][(/\ clicks' # clicks
        /\ hiddenColumns.kind # "undefined"
        /\ ~threw
        /\ \/ EntryMissing(last'.row, last'.col)
           \/ ~HasLevel(PluginLevel(last'.row) + 1))
       => (~threw' /\ hiddenColumns'.hasColumns)]_vars

\* C12: a click on an indicator whose (level, position) has no entry in the colspan
\* record raises no exception and changes neither isCollapsed of any header cell
\* nor the hidden-column set.
C12_OutOfRangeNoOp ==
    [][(clicks' # clicks /\ ~threw /\ EntryMissing(last'.row, last'.col))
       => (/\ ~threw'
           /\ Flagged(collapsedSections') = Flagged(collapsedSections)
           /\ HiddenSet(hiddenColumns') = HiddenSet(hiddenColumns))]_vars

-----------------------------------------------------------------------------
(* Properties of rendering, of the write and of the child list *)

\* The rendered indicators are those the colspans and isCollapsed call for.
IndicatorsMatch ==
    \A rc \in Cells :
        indicator[rc] = IF Width(rc) > 1
                        THEN (IF isCollapsed(collapsedSections, rc[1], rc[2])
                              THEN "collapsed"
                              ELSE "expanded")
                        ELSE "none"

\* C13: a render of the header attaches an indicator to exactly the header cells
\* whose colspan is greater than 1, shows it collapsed exactly when isCollapsed
\* holds of the cell and expanded otherwise, and leaves the section state store
\* as it was.
C13_IndicatorRendering ==
    [][RenderHeaders => (IndicatorsMatch' /\ collapsedSections' = collapsedSections)]_vars

\* A rendered header with a collapsed indicator, an expanded indicator and a cell
\* without indicator, one of the sections having been expanded again.
C13_Witness ==
    /\ IndicatorsMatch
    /\ \E rc \in Cells : indicator[rc] = "collapsed"
    /\ \E rc \in Cells : indicator[rc] = "none"
    /\ \E rc \in Cells :
          /\ indicator[rc] = "expanded"
          /\ rc[1] \in DOMAIN collapsedSections
          /\ rc[2] \in DOMAIN collapsedSections[rc[1]]

\* C14: every click on an indicator replaces the column list of the column
\* visibility store, once, after the marking of the section and of its cascaded
\* descendants: the click ends with the written list in the store, the marks
\* stored and no exception raised.
C14_OneWritePerToggle ==
    [][(clicks' # clicks /\ ~threw)
       => (/\ ~threw'
           /\ hiddenColumns'.kind = "object"
           /\ hiddenColumns'.hasColumns
           /\ last'.row \in DOMAIN collapsedSections'
           /\ last'.col \in DOMAIN collapsedSections'[last'.row])]_vars

\* No element occurs twice in the sequence.
NoDuplicates(s) == \A i, j \in 1..Len(s) : s[i] = s[j] => i = j

\* C15: for every header cell and every colspan passed, the list getChildHeaders
\* returns contains no real column index more than once. getChildHeaders reads
\* the colspan record and this.columnHeaderLevelCount only, which no click
\* changes: the lists are those of the grid before its first click.
C15_ChildListDistinct ==
    clicks = 0 =>
        \A rc \in Cells : \A span \in 1..NumCols :
            NoDuplicates(getChildHeaders(rc[1], rc[2], span))

\* The grid is ready and getChildHeaders returns, for some section, a list of two
\* or more children among which one spans more than one column.
C15_Witness ==
    /\ phase = "ready"
    /\ \E rc \in Sections :
          LET childHeaders == getChildHeaders(rc[1], rc[2], Width(rc))
          IN /\ Len(childHeaders) >= 2
             /\ \E i \in 1..Len(childHeaders) :
                   SpansMany(headerRowCount + rc[1] + 1,
                             realColumnIndexToNestedIndex(rc[1] + 1, childHeaders[i]))

\* C17: every recursive call of markSectionAs made by a click is made one header
\* row below its caller and for a level the colspan record has, and the click
\* finishes its marking and reaches the write of the column list.
C17_MarkingTerminates ==
    [][(clicks' # clicks /\ ~threw)
       => (/\ \A call \in markSectionAsCalls(last'.row, last'.col) :
                 /\ call[2] = call[1] + 1
                 /\ HasLevel(PluginLevel(call[2]))
           /\ ~threw'
           /\ hiddenColumns'.hasColumns)]_vars

-----------------------------------------------------------------------------
(* The cascade of the marks *)

\* A header of six columns: one top cell, below it three cells of two columns each.
WideHeader == <<<<6>>, <<2, 2, 2>>>>

\* The grid constructed with the six-column header.
WideInit ==
    /\ nestedHeaders = TRUE
    /\ colspan = WideHeader
    /\ hiddenColumns \in InitialHiddenSettings
    /\ collapsedSections = [r \in {} |-> NoCells]
    /\ indicator = [rc \in ConfiguredCells |-> "none"]
    /\ phase = "constructed"
    /\ warned = FALSE
    /\ threw = FALSE
    /\ clicks = 0
    /\ last = NoClick
    /\ columnHeaderLevelCount = 0

WideSpec == WideInit /\ [][Next]_vars

\* The header cells one row below rc inside its span.
ChildCells(rc) == {d \in Descendants(rc) : d[1] = rc[1] + 1}

\* The first immediate child of rc: the child cell that starts where rc starts.
FirstChildCells(rc) == {d \in ChildCells(rc) : LeftColumn(d) = LeftColumn(rc)}

\* The sections the cascade rule reaches from rc: every immediate child but the
\* first that spans more than one column, and from each of these again.
RECURSIVE CascadeTargets(_)
CascadeTargets(rc) ==
    LET direct == {d \in ChildCells(rc) \ FirstChildCells(rc) : Width(d) > 1}
    IN direct \cup UNION {CascadeTargets(d) : d \in direct}

\* The first immediate child of rc and the header cells below it.
FirstBranch(rc) ==
    FirstChildCells(rc) \cup UNION {Descendants(d) : d \in FirstChildCells(rc)}

\* The stored value of a header cell, "absent" when the store has no key for it.
Stored(cs, rc) ==
    IF rc[1] \in DOMAIN cs /\ rc[2] \in DOMAIN cs[rc[1]] THEN cs[rc[1]][rc[2]] ELSE "absent"

\* C16: a click that collapses (expands) a section leaves every section the
\* cascade rule reaches from it collapsed (expanded), and leaves the stored flag of
\* the first immediate child and of the header cells below that child as it was.
C16_CascadeRule ==
    [][clicks' # clicks
       => LET rc == <<last'.row, last'.col>>
          IN /\ \A d \in CascadeTargets(rc) :
                   isCollapsed(collapsedSections', d[1], d[2]) = (last'.action = "collapse")
             /\ \A d \in FirstBranch(rc) :
                   Stored(collapsedSections', d) = Stored(collapsedSections, d)
      ]_vars

-----------------------------------------------------------------------------
(* Flags and hidden columns together *)

\* The grid constructed with no column hidden.
EmptyStartInit == Init /\ HiddenSet(hiddenColumns) = {}

EmptyStartSpec == EmptyStartInit /\ [][Next]_vars

\* The real columns of a section's span after its head: after the columns of its
\* first immediate child.
HiddenWhenCollapsed(rc) ==
    (LeftColumn(rc) + FirstChildColspan(rc))..(LeftColumn(rc) + Width(rc) - 1)

\* C18: with the column visibility store configured and no column hidden at the
\* start, every section flagged collapsed has all the columns of its span after
\* its head in the hidden set, whatever sections were collapsed and expanded.
C18_FlagsMatchHidden ==
    (phase = "ready" /\ hiddenColumns.kind # "undefined") =>
        \A rc \in Sections :
            isCollapsed(collapsedSections, rc[1], rc[2]) =>
                HiddenWhenCollapsed(rc) \subseteq HiddenSet(hiddenColumns)

\* C19: a click on the indicator of a section with leftmost real column b and
\* colspan c changes the hidden status of no real column outside b+1 .. b+c-1,
\* and keeps the other field of the hiddenColumns settings object.
C19_ToggleFrame ==
    [][clicks' # clicks
       => LET tail == SpanTail(<<last'.row, last'.col>>)
          IN /\ HiddenSet(hiddenColumns') \ tail = HiddenSet(hiddenColumns) \ tail
             /\ hiddenColumns'.indicators = hiddenColumns.indicators
      ]_vars

\* After a click that changed the hidden set, the settings object still has its
\* indicators field and a column outside the clicked section's tail is still hidden.
C19_Witness ==
    /\ clicks = 1
    /\ last.action = "collapse"
    /\ hiddenColumns.indicators
    /\ SpanTail(<<last.row, last.col>>) \cap HiddenSet(hiddenColumns) # {}
    /\ HiddenSet(hiddenColumns) \ SpanTail(<<last.row, last.col>>) # {}

\* C20: the hidden-column list of the column visibility store, which starts
\* without duplicates (or absent, read as empty), never contains a real column
\* index twice.
C20_HiddenListDistinct ==
    NoDuplicates(CurrentlyHidden(hiddenColumns))

\* A section and a section below it are both collapsed, and the list holds a
\* column of the lower section before a smaller column of the upper one: the upper
\* section was collapsed later and found the lower section's columns in the list.
C20_Witness ==
    \E rc \in Sections : \E d \in Descendants(rc) \cap Sections :
        /\ isCollapsed(collapsedSections, rc[1], rc[2])
        /\ isCollapsed(collapsedSections, d[1], d[2])
        /\ HiddenWhenCollapsed(rc) \cup HiddenWhenCollapsed(d) \subseteq HiddenSet(hiddenColumns)
        /\ \E i, j \in 1..Len(hiddenColumns.columns) :
              /\ i < j
              /\ hiddenColumns.columns[i] \in HiddenWhenCollapsed(d)
              /\ hiddenColumns.columns[j] \in HiddenWhenCollapsed(rc)
              /\ hiddenColumns.columns[j] < hiddenColumns.columns[i]

====
